---- MODULE Spec2Model ----
(***************************************************************************)
(* Model of models/generate.py: the two generation drivers                 *)
(* (images_from_flux, images_from_imagen) and the provenance query         *)
(* (study_fetch), together with the collaborators they call: the           *)
(* generation providers, the object store and the metadata store.          *)
(*                                                                         *)
(* A string is a sequence of lexemes.  The lexemes "/" and "." are the     *)
(* path separator and the extension separator; no other lexeme contains    *)
(* either character, and no concatenation of other lexemes spells          *)
(* "stablediffusion" or "20250328_".                                       *)
(***************************************************************************)
EXTENDS Integers, Sequences, FiniteSets, TLC

\* ------------------------------------------------------------------ bounds
MaxLegacy == 2
MaxCalls == 2
MaxImages == 2

\* ----------------------------------------------------------------- strings
SEP == "/"
EXTSEP == "."
STABLEDIFFUSION == <<"stablediffusion">>
LEGACY_PREFIX == <<"20250328_">>

\* str.rfind for a one-character needle, 1-based; 0 when absent (Python: -1)
rfind(p, ch) ==
  IF \E i \in 1..Len(p) : p[i] = ch
  THEN CHOOSE i \in 1..Len(p) : p[i] = ch /\ \A j \in (i+1)..Len(p) : p[j] # ch
  ELSE 0

\* needle in s
Contains(s, needle) ==
  \E i \in 1..(Len(s) - Len(needle) + 1) :
     SubSeq(s, i, i + Len(needle) - 1) = needle

\* s.startswith(prefix)
StartsWith(s, prefix) ==
  /\ Len(prefix) <= Len(s)
  /\ SubSeq(s, 1, Len(prefix)) = prefix

\* os.path.splitext(p)[0]: the extension starts at the last dot of the last
\* path component, provided a non-dot character precedes it in that component
splitext_root(p) ==
  LET sepIndex == rfind(p, SEP)
      dotIndex == rfind(p, EXTSEP)
  IN IF /\ dotIndex > sepIndex
        /\ \E k \in (sepIndex + 1)..(dotIndex - 1) : p[k] # EXTSEP
     THEN SubSeq(p, 1, dotIndex - 1)
     ELSE p

\* the body of the loop of study_fetch: the candidate built from one gcsuri
normalize_startswith(gs_uri) == StartsWith(gs_uri, LEGACY_PREFIX)

normalize(gs_uri) ==
  IF ~Contains(gs_uri, STABLEDIFFUSION)
  THEN splitext_root(gs_uri)
  ELSE IF normalize_startswith(gs_uri)
       THEN splitext_root(gs_uri)
       ELSE gs_uri

\* ------------------------------------------------------------ request data
MODEL_FLUX1 == "flux1"
MODEL_IMAGEN == "imagen3"
Models == {MODEL_FLUX1, MODEL_IMAGEN, "unregistered"}
Prompts == {"a cat", "a dog"}
AspectRatios == {"16:9"}
Calls == 1..MaxCalls
FetchModels == {MODEL_FLUX1, MODEL_IMAGEN, "stablediffusion"}

\* error texts add_image_metadata can raise with (str(e))
MetadataErrors == {<<"504 ", "DeadlineExceeded">>, <<"PermissionDenied">>}

VARIABLES
  pc,              \* where each generate call stands
  request,         \* its arguments (model_name, prompt, aspect_ratio)
  images,          \* images_from_flux: the payloads taken from response.predictions
  response,        \* images_from_imagen: the _gcs_uri of each of response.images
  idx,             \* position of the loop over the images
  gcs_uri,         \* images_from_flux: the location of the image just stored
  arena_output,    \* the list the call returns
  exc,             \* the exception the call raised, "none" otherwise
  log,             \* the logging.error lines of each call
  provider_calls,  \* the provider invocations of each call, with their outcome
  metadata_calls,  \* the outcome of each add_image_metadata of each call
  bucket,          \* object store: the objects written, with the artifact they hold
  collection,      \* metadata store: the documents, in insertion order
  uuid_count,      \* uuid.uuid4() values drawn so far
  imagen_count,    \* objects the Imagen service has named so far
  study            \* the last study_fetch call and its outcome

vars == <<pc, request, images, response, idx, gcs_uri, arena_output, exc, log,
          provider_calls, metadata_calls, bucket, collection, uuid_count,
          imagen_count, study>>

gen_vars == <<pc, request, images, response, idx, gcs_uri, arena_output, exc, log,
              provider_calls, metadata_calls, bucket, uuid_count, imagen_count>>

NoRequest == [model_name |-> "", prompt |-> "", aspect_ratio |-> ""]
NoStudy == [status |-> "none", model_name |-> "", prompt |-> "",
            query |-> <<>>, docs |-> <<>>, result |-> <<>>, exc |-> "none"]

\* ------------------------------------------------------------- study_fetch
\* a filter on the prompt alone
FieldFilter_prompt_only(doc, model_name, prompt) == doc.prompt = prompt

\* collection_ref.where(prompt == prompt).where(model == model_name).stream()
FieldFilter(doc, model_name, prompt) ==
  doc.prompt = prompt /\ doc.model = model_name

query_stream(coll, model_name, prompt) ==
  LET keep(doc) == FieldFilter(doc, model_name, prompt)
  IN SelectSeq(coll, keep)

\* the loop "for doc in query": one candidate per document, in stream order
RECURSIVE build_docs(_)
build_docs(query) ==
  IF query = <<>> THEN <<>>
  ELSE <<normalize(Head(query).gcsuri)>> \o build_docs(Tail(query))

\* population[:1] in place of the sample: empty for an empty population
random_sample_slice(population) ==
  {IF population = <<>> THEN <<>> ELSE <<Head(population)>>}

\* random.sample(population, 1): every possible return value; none when the
\* population is smaller than the sample (ValueError)
random_sample(population) ==
  {<<population[i]>> : i \in 1..Len(population)}

study_fetch_outcomes(coll, model_name, prompt) ==
  random_sample(build_docs(query_stream(coll, model_name, prompt)))

study_fetch(model_name, prompt) ==
  LET query == query_stream(collection, model_name, prompt)
      docs == build_docs(query)
      call == [status |-> "called", model_name |-> model_name, prompt |-> prompt,
               query |-> query, docs |-> docs, result |-> <<>>, exc |-> "none"]
  IN /\ \/ /\ study_fetch_outcomes(collection, model_name, prompt) = {}
           /\ study' = [call EXCEPT !.status = "raised", !.exc = "ValueError"]
        \/ \E r \in study_fetch_outcomes(collection, model_name, prompt) :
             study' = [call EXCEPT !.status = "returned", !.result = r]
     /\ UNCHANGED collection
     /\ UNCHANGED gen_vars

\* --------------------------------------------------- stored legacy records
LegacyDirs ==
  { <<"gs:", "/", "/", "bucket", "/", "imagen_live", "/">>,
    <<"gs:", "/", "/", "bucket", "/", "stablediffusion", "/">>,
    <<"20250328_", "batch", "/", "stablediffusion", "/">>,
    <<"gs:", "/", "/", "bucket", "/", "v1", ".", "0", "/">> }

LegacyNames ==
  { <<"abc", ".", "png">>,
    <<"20250328_", "new", ".", "jpg">>,
    <<"abc">> }

LegacyLocations == {d \o n : d \in LegacyDirs, n \in LegacyNames}

LegacyDocs ==
  [gcsuri : LegacyLocations, prompt : Prompts, model : {MODEL_IMAGEN, "stablediffusion"}]

RECURSIVE SeqsUpTo(_, _)
SeqsUpTo(S, n) ==
  IF n = 0 THEN {<<>>}
  ELSE LET shorter == SeqsUpTo(S, n - 1)
       IN shorter \cup {Append(s, x) : s \in shorter, x \in S}

GenInit ==
  /\ pc = [c \in Calls |-> "idle"]
  /\ request = [c \in Calls |-> NoRequest]
  /\ images = [c \in Calls |-> <<>>]
  /\ response = [c \in Calls |-> <<>>]
  /\ idx = [c \in Calls |-> 0]
  /\ gcs_uri = [c \in Calls |-> <<>>]
  /\ arena_output = [c \in Calls |-> <<>>]
  /\ exc = [c \in Calls |-> "none"]
  /\ log = [c \in Calls |-> <<>>]
  /\ provider_calls = [c \in Calls |-> <<>>]
  /\ metadata_calls = [c \in Calls |-> <<>>]
  /\ bucket = {}
  /\ uuid_count = 0
  /\ imagen_count = 0

\* the query service over a store that already holds records
InitFetch ==
  /\ GenInit
  /\ collection \in SeqsUpTo(LegacyDocs, MaxLegacy)
  /\ study = NoStudy

\* ---------------------------------------------------------- collaborators
GENMEDIA_BUCKET == "bucket"
GS == <<"gs:", "/", "/">>

\* uuid.uuid4(): a value no earlier draw returned
uuid4(n) == "uuid-" \o ToString(n)

\* common.storage.store_to_gcs(folder, file_name, ...): the name it returns
store_to_gcs(folder, file_name) ==
  <<GENMEDIA_BUCKET, "/", folder, "/">> \o file_name

\* one fixed file name, and a file name made of the loop index
flux_file_name_fixed(u, i) == <<"image", ".", "png">>

flux_file_name_by_index(u, i) == <<ToString(i), ".", "png">>

\* images_from_flux: the file name and the location of one stored image
flux_file_name(u, i) == <<uuid4(u), ".", "png">>

flux_gcs_uri(u, i) == GS \o store_to_gcs("flux1", flux_file_name(u, i))

\* the Imagen service writes under output_gcs_uri and names the objects itself
output_gcs_uri == GS \o <<GENMEDIA_BUCKET, "/", "imagen_live">>

imagen_gcs_uri(n) == output_gcs_uri \o <<"/", "sample-" \o ToString(n), ".", "png">>

\* common.metadata.add_image_metadata(gcsuri, prompt, model): the document added
add_image_metadata(coll, uri, prompt, model_name) ==
  Append(coll, [gcsuri |-> uri, prompt |-> prompt, model |-> model_name])

\* an except clause that lets the timeout through
metadata_except_reraise(e) ==
  [line |-> "Firestore timeout", reraise |-> Contains(e, <<"DeadlineExceeded">>)]

\* the except clause around add_image_metadata: what it logs, whether it re-raises
metadata_except(e) ==
  [line |-> IF Contains(e, <<"DeadlineExceeded">>)
            THEN "Firestore timeout"
            ELSE "Error adding image metadata",
   reraise |-> FALSE]

\* ------------------------------------------------------------------ dispatch
Registry == [m \in {MODEL_FLUX1, MODEL_IMAGEN} |->
               IF m = MODEL_FLUX1 THEN "images_from_flux" ELSE "images_from_imagen"]

generate(c, model_name, prompt, aspect_ratio) ==
  /\ pc[c] = "idle"
  /\ request' = [request EXCEPT ![c] = [model_name |-> model_name, prompt |-> prompt,
                                        aspect_ratio |-> aspect_ratio]]
  /\ \/ /\ model_name \in DOMAIN Registry
        /\ pc' = [pc EXCEPT ![c] = IF Registry[model_name] = "images_from_flux"
                                   THEN "flux_predict" ELSE "imagen_generate"]
        /\ exc' = exc
     \/ /\ model_name \notin DOMAIN Registry
        /\ pc' = [pc EXCEPT ![c] = "raised"]
        /\ exc' = [exc EXCEPT ![c] = "UnknownModelError"]
  /\ UNCHANGED <<images, response, idx, gcs_uri, arena_output, log, provider_calls,
                 metadata_calls, bucket, collection, uuid_count, imagen_count, study>>

\* ---------------------------------------------------------- images_from_flux
\* a driver that calls the provider again
provider_retried(at) == at

\* what a failed provider call leaves the driver in
provider_failed(at) == "raised"

flux_invoke(calls, ok) == Append(calls, [api |-> "endpoint.predict", ok |-> ok])

\* endpoint.predict(...) and the list comprehension over response.predictions
flux_predict(c) ==
  /\ pc[c] = "flux_predict"
  /\ \/ /\ provider_calls' = [provider_calls EXCEPT ![c] = flux_invoke(@, FALSE)]
        /\ pc' = [pc EXCEPT ![c] = provider_failed("flux_predict")]
        /\ exc' = [exc EXCEPT ![c] = IF pc'[c] = "raised" THEN "ProviderCallError" ELSE @]
        /\ UNCHANGED <<images, idx>>
     \/ \E n \in 0..MaxImages :
        /\ provider_calls' = [provider_calls EXCEPT ![c] = flux_invoke(@, TRUE)]
        /\ images' = [images EXCEPT ![c] = [i \in 1..n |-> "b64"]]
        /\ idx' = [idx EXCEPT ![c] = 1]
        /\ pc' = [pc EXCEPT ![c] = "flux_loop"]
        /\ exc' = exc
  /\ UNCHANGED <<request, response, gcs_uri, arena_output, log, metadata_calls,
                 bucket, collection, uuid_count, imagen_count, study>>

\* store_to_gcs(...), the "gs://" prefix and arena_output.append(gcs_uri)
flux_store(c) ==
  /\ pc[c] = "flux_loop"
  /\ idx[c] <= Len(images[c])
  /\ \/ /\ pc' = [pc EXCEPT ![c] = "raised"]
        /\ exc' = [exc EXCEPT ![c] = "StorageError"]
        /\ UNCHANGED <<uuid_count, bucket, gcs_uri, arena_output>>
     \/ LET uri == flux_gcs_uri(uuid_count + 1, idx[c])
        IN /\ uuid_count' = uuid_count + 1
           /\ bucket' = bucket \cup {[uri |-> uri, call |-> c, idx |-> idx[c]]}
           /\ gcs_uri' = [gcs_uri EXCEPT ![c] = uri]
           /\ arena_output' = [arena_output EXCEPT ![c] = Append(@, uri)]
           /\ pc' = [pc EXCEPT ![c] = "flux_metadata"]
           /\ exc' = exc
  /\ UNCHANGED <<request, images, response, idx, log, provider_calls, metadata_calls,
                 collection, imagen_count, study>>

\* prompt and model_name passed in each other's place
metadata_args_swapped(uri, prompt, model_name) ==
  [gcsuri |-> uri, prompt |-> model_name, model |-> prompt]

\* the arguments of add_image_metadata(uri, prompt, model_name)
metadata_args(uri, prompt, model_name) ==
  [gcsuri |-> uri, prompt |-> prompt, model |-> model_name]

\* try: add_image_metadata(uri, prompt, model_name) except Exception: log
try_add_image_metadata(c, uri, next) ==
  \/ /\ LET args == metadata_args(uri, request[c].prompt, request[c].model_name)
        IN collection' = add_image_metadata(collection, args.gcsuri, args.prompt, args.model)
     /\ metadata_calls' = [metadata_calls EXCEPT ![c] = Append(@, <<"ok">>)]
     /\ idx' = [idx EXCEPT ![c] = @ + 1]
     /\ pc' = [pc EXCEPT ![c] = next]
     /\ UNCHANGED <<log, exc>>
  \/ \E e \in MetadataErrors :
     /\ metadata_calls' = [metadata_calls EXCEPT ![c] = Append(@, e)]
     /\ log' = [log EXCEPT ![c] = Append(@, metadata_except(e).line)]
     /\ IF metadata_except(e).reraise
        THEN /\ pc' = [pc EXCEPT ![c] = "raised"]
             /\ exc' = [exc EXCEPT ![c] = "MetadataWriteError"]
             /\ idx' = idx
        ELSE /\ pc' = [pc EXCEPT ![c] = next]
             /\ idx' = [idx EXCEPT ![c] = @ + 1]
             /\ exc' = exc
     /\ UNCHANGED collection

flux_metadata(c) ==
  /\ pc[c] = "flux_metadata"
  /\ try_add_image_metadata(c, gcs_uri[c], "flux_loop")
  /\ UNCHANGED <<request, images, response, gcs_uri, arena_output, provider_calls,
                 bucket, uuid_count, imagen_count, study>>

\* return arena_output
flux_return(c) ==
  /\ pc[c] = "flux_loop"
  /\ idx[c] > Len(images[c])
  /\ pc' = [pc EXCEPT ![c] = "returned"]
  /\ UNCHANGED <<request, images, response, idx, gcs_uri, arena_output, exc, log,
                 provider_calls, metadata_calls, bucket, collection, uuid_count,
                 imagen_count, study>>

\* -------------------------------------------------------- images_from_imagen
\* a driver that also calls the Flux endpoint
imagen_invoke_both(calls, ok) ==
  Append(Append(calls, [api |-> "generate_images", ok |-> ok]),
         [api |-> "endpoint.predict", ok |-> ok])

imagen_invoke(calls, ok) == Append(calls, [api |-> "generate_images", ok |-> ok])

\* image_model.generate_images(..., output_gcs_uri=...): the service stores the
\* images it generated and answers with their locations
imagen_generate(c) ==
  /\ pc[c] = "imagen_generate"
  /\ \/ /\ provider_calls' = [provider_calls EXCEPT ![c] = imagen_invoke(@, FALSE)]
        /\ pc' = [pc EXCEPT ![c] = provider_failed("imagen_generate")]
        /\ exc' = [exc EXCEPT ![c] = IF pc'[c] = "raised" THEN "ProviderCallError" ELSE @]
        /\ UNCHANGED <<response, idx, bucket, imagen_count>>
     \/ \E n \in 0..MaxImages :
        /\ provider_calls' = [provider_calls EXCEPT ![c] = imagen_invoke(@, TRUE)]
        /\ response' = [response EXCEPT ![c] = [i \in 1..n |-> imagen_gcs_uri(imagen_count + i)]]
        /\ bucket' = bucket \cup {[uri |-> imagen_gcs_uri(imagen_count + i), call |-> c,
                                   idx |-> i] : i \in 1..n}
        /\ imagen_count' = imagen_count + n
        /\ idx' = [idx EXCEPT ![c] = 1]
        /\ pc' = [pc EXCEPT ![c] = "imagen_loop"]
        /\ exc' = exc
  /\ UNCHANGED <<request, images, gcs_uri, arena_output, log, metadata_calls,
                 collection, uuid_count, study>>

\* arena_output.append(img._gcs_uri), then the guarded add_image_metadata
imagen_metadata(c) ==
  /\ pc[c] = "imagen_loop"
  /\ idx[c] <= Len(response[c])
  /\ arena_output' = [arena_output EXCEPT ![c] = Append(@, response[c][idx[c]])]
  /\ try_add_image_metadata(c, response[c][idx[c]], "imagen_loop")
  /\ UNCHANGED <<request, images, response, gcs_uri, provider_calls, bucket,
                 uuid_count, imagen_count, study>>

imagen_return(c) ==
  /\ pc[c] = "imagen_loop"
  /\ idx[c] > Len(response[c])
  /\ pc' = [pc EXCEPT ![c] = "returned"]
  /\ UNCHANGED <<request, images, response, idx, gcs_uri, arena_output, exc, log,
                 provider_calls, metadata_calls, bucket, collection, uuid_count,
                 imagen_count, study>>

\* ------------------------------------------------------------ specifications
Init ==
  /\ GenInit
  /\ collection = <<>>
  /\ study = NoStudy

Generate == \E c \in Calls, m \in Models, p \in Prompts, a \in AspectRatios :
              generate(c, m, p, a)
FluxPredict == \E c \in Calls : flux_predict(c)
FluxStore == \E c \in Calls : flux_store(c)
FluxMetadata == \E c \in Calls : flux_metadata(c)
FluxReturn == \E c \in Calls : flux_return(c)
ImagenGenerate == \E c \in Calls : imagen_generate(c)
ImagenMetadata == \E c \in Calls : imagen_metadata(c)
ImagenReturn == \E c \in Calls : imagen_return(c)
StudyFetch == \E m \in FetchModels, p \in Prompts : study_fetch(m, p)

NextFetch == StudyFetch

SpecFetch == InitFetch /\ [][NextFetch]_vars

Next ==
  \/ Generate
  \/ FluxPredict
  \/ FluxStore
  \/ FluxMetadata
  \/ FluxReturn
  \/ ImagenGenerate
  \/ ImagenMetadata
  \/ ImagenReturn
  \/ StudyFetch

Spec == Init /\ [][Next]_vars

\* ============================================================= properties
\* the last path component of a location
FileName(loc) == SubSeq(loc, rfind(loc, SEP) + 1, Len(loc))

\* a location without the extension of its file name (".jpg", ".png")
ExtensionStripped(loc) ==
  LET name == FileName(loc)
      dot == rfind(name, EXTSEP)
  IN IF dot > 1 /\ \E k \in 1..(dot - 1) : name[k] # EXTSEP
     THEN SubSeq(loc, 1, Len(loc) - Len(name) + dot - 1)
     ELSE loc

\* the stored documents with exactly this prompt and this model
Matching(model_name, prompt) ==
  {k \in DOMAIN collection :
     collection[k].prompt = prompt /\ collection[k].model = model_name}

Studied == study.status # "none"

\* C3: every matching record whose location references "stablediffusion" and
\* whose file name begins with "20250328_" yields the location with its
\* extension stripped.
C3_LegacyPrefixedStripped ==
  Studied =>
    \A i \in 1..Len(study.query) :
      LET loc == study.query[i].gcsuri
      IN (Contains(loc, STABLEDIFFUSION) /\ StartsWith(FileName(loc), LEGACY_PREFIX))
           => study.docs[i] = ExtensionStripped(loc)

\* C4: a matching record whose location does not reference "stablediffusion"
\* yields the location without its extension; one that references it and whose
\* file name is not prefixed "20250328_" yields the location unmodified.
C4_RemainingCases ==
  Studied =>
    \A i \in 1..Len(study.query) :
      LET loc == study.query[i].gcsuri
      IN /\ ~Contains(loc, STABLEDIFFUSION) => study.docs[i] = ExtensionStripped(loc)
         /\ (Contains(loc, STABLEDIFFUSION) /\ ~StartsWith(FileName(loc), LEGACY_PREFIX))
              => study.docs[i] = loc

\* C5: a study_fetch call that no stored record matches raises; it never
\* returns, neither an empty result nor any location.
C5_NoMatchRaises ==
  (Studied /\ Matching(study.model_name, study.prompt) = {})
    => /\ study.status = "raised"
       /\ study.exc = "ValueError"
       /\ study.result = <<>>

C5_Witness ==
  /\ study.status = "raised"
  /\ collection # <<>>
  /\ Matching(study.model_name, study.prompt) = {}

\* C6: when some record matches, the possible results of study_fetch are
\* exactly the candidates of the records equal in both prompt and model, one
\* location per call, and each of them can be the one returned.
C6_SampleOverMatching ==
  /\ \A m \in FetchModels, p \in Prompts :
       Matching(m, p) # {} =>
         study_fetch_outcomes(collection, m, p)
           = {<<normalize(collection[k].gcsuri)>> : k \in Matching(m, p)}
  /\ study.status = "returned" =>
       /\ Len(study.result) = 1
       /\ \E k \in Matching(study.model_name, study.prompt) :
            study.result[1] = normalize(collection[k].gcsuri)

C6_Witness ==
  /\ study.status = "returned"
  /\ Cardinality(Matching(study.model_name, study.prompt)) = 2
  /\ study.docs[1] # study.docs[2]
  /\ study.result = <<study.docs[2]>>

\* ------------------------------------------------------- generate: helpers
\* the objects a call had written to the object store, on its behalf included
ObjectsOf(c) == {o \in bucket : o.call = c}

\* the documents a call added to the metadata store
WritesOf(c) == {i \in 1..Len(metadata_calls[c]) : metadata_calls[c][i] = <<"ok">>}

\* the number of images of the provider's answer
Answered(c) == Len(images[c]) + Len(response[c])

\* the documents keyed by a location
RecordsAt(uri) == {k \in DOMAIN collection : collection[k].gcsuri = uri}

IsPrefix(s, t) == Len(s) <= Len(t) /\ SubSeq(t, 1, Len(s)) = s

\* C1: whichever metadata writes fail, and however, the call does not fail for
\* it, and it returns the location of every artifact in order, the list it
\* returns when every write succeeds.
C1_FailureIsolation ==
  \A c \in Calls :
    /\ exc[c] \notin {"MetadataWriteError"}
    /\ (pc[c] = "raised" /\ metadata_calls[c] # <<>>) => exc[c] = "StorageError"
    /\ Len(log[c]) = Len(metadata_calls[c]) - Cardinality(WritesOf(c))
    /\ pc[c] = "returned" =>
         /\ Len(arena_output[c]) = Answered(c)
         /\ \A i \in 1..Answered(c) :
              [uri |-> arena_output[c][i], call |-> c, idx |-> i] \in bucket

C1_Witness ==
  \E c \in Calls :
    /\ pc[c] = "returned"
    /\ Len(arena_output[c]) = 2
    /\ log[c] = <<"Firestore timeout", "Error adding image metadata">>
    /\ WritesOf(c) = {}

\* C2: a failed provider call ends the generate call with the error: the
\* provider was invoked once, nothing is returned, stored or recorded.
C2_ProviderFailurePropagates ==
  \A c \in Calls :
    (\E i \in 1..Len(provider_calls[c]) : ~provider_calls[c][i].ok) =>
      /\ Len(provider_calls[c]) = 1
      /\ pc[c] = "raised"
      /\ exc[c] = "ProviderCallError"
      /\ arena_output[c] = <<>>
      /\ ObjectsOf(c) = {}
      /\ metadata_calls[c] = <<>>

C2_Witness ==
  \E c1, c2 \in Calls :
    /\ exc[c1] = "ProviderCallError" /\ provider_calls[c1][1].api = "endpoint.predict"
    /\ exc[c2] = "ProviderCallError" /\ provider_calls[c2][1].api = "generate_images"

\* C7 as stated: once a call has returned, every location it returned keys
\* exactly one document of the metadata store.
C7_ExactlyOneRecord ==
  \A c \in Calls :
    pc[c] = "returned" =>
      \A i \in 1..Len(arena_output[c]) : Cardinality(RecordsAt(arena_output[c][i])) = 1

\* the documents keyed by an artifact's location: one when its metadata write
\* succeeded, none when it failed or is still to come
C7_RecordPerWrite ==
  \A c \in Calls :
    \A i \in 1..Len(arena_output[c]) :
      Cardinality(RecordsAt(arena_output[c][i])) = IF i \in WritesOf(c) THEN 1 ELSE 0

\* C7 amended: a persisted artifact's location keys at most one document,
\* exactly one when its metadata write succeeded and none when it failed, and
\* no generate or study_fetch step modifies or removes a stored document.
C7_AtMostOneRecordNeverMutated ==
  /\ []C7_RecordPerWrite
  /\ [][IsPrefix(collection, collection')]_vars

C7_Witness ==
  \E c \in Calls :
    /\ pc[c] = "returned"
    /\ Len(arena_output[c]) = 2
    /\ WritesOf(c) = {2}
    /\ study.status = "returned"
    /\ Len(collection) >= 2

\* C8: every document of the metadata store is keyed by the location of an
\* artifact whose object is in the object store, carries the prompt and the
\* model of the request that produced it, and its key is the entry of that
\* artifact in the list the call returns.
C8_RecordMatchesArtifact ==
  \A k \in DOMAIN collection :
    \E c \in Calls :
      \E i \in WritesOf(c) :
        /\ i <= Len(arena_output[c])
        /\ arena_output[c][i] = collection[k].gcsuri
        /\ [uri |-> collection[k].gcsuri, call |-> c, idx |-> i] \in bucket
        /\ collection[k].prompt = request[c].prompt
        /\ collection[k].model = request[c].model_name

C8_Witness ==
  /\ Len(collection) = 3
  /\ \E c1, c2 \in Calls :
       /\ request[c1].model_name = MODEL_FLUX1
       /\ request[c2].model_name = MODEL_IMAGEN
       /\ request[c1].prompt # request[c2].prompt
       /\ WritesOf(c1) # {} /\ WritesOf(c2) # {}
       /\ pc[c1] = "returned" /\ pc[c2] = "returned"

\* C9: whatever the interleaving of the calls, no two artifacts have the same
\* location: no two objects, no two returned entries and no two documents
\* share one.
C9_LocationsDistinct ==
  /\ \A o1, o2 \in bucket : o1.uri = o2.uri => o1 = o2
  /\ \A c1, c2 \in Calls :
       \A i1 \in 1..Len(arena_output[c1]), i2 \in 1..Len(arena_output[c2]) :
         arena_output[c1][i1] = arena_output[c2][i2] => (c1 = c2 /\ i1 = i2)
  /\ \A k1, k2 \in DOMAIN collection :
       collection[k1].gcsuri = collection[k2].gcsuri => k1 = k2

C9_Witness ==
  \E c1, c2 \in Calls :
    /\ c1 # c2
    /\ request[c1] = request[c2]
    /\ pc[c1] = "flux_metadata" /\ pc[c2] = "flux_metadata"
    /\ Len(arena_output[c1]) = 2 /\ Len(arena_output[c2]) = 2
    /\ Len(collection) = 2

\* C10: a call for a registered model invokes the provider of its driver and
\* no other, once; a call for an unregistered model fails with
\* UnknownModelError and invokes, stores and records nothing.
C10_Provider(model_name) ==
  IF model_name = MODEL_FLUX1 THEN "endpoint.predict" ELSE "generate_images"

====
